---- MODULE Spec2Model ----
(***************************************************************************)
(* Peak-Detection-Visualization: the streaming server (api/index.js) and   *)
(* the Chart component's client-side buffer (src/components/Chart.js).     *)
(*                                                                         *)
(* Server: a single-threaded Node process.  Every handler (connection,     *)
(* disconnect, interval callback) runs to completion, so each is one       *)
(* action.  An exception that escapes a handler is uncaught (the file      *)
(* installs no handler for it) and ends the process: `thrown` records it   *)
(* and every server action is disabled afterwards.                         *)
(*                                                                         *)
(* Client: one Chart component.  Its socket callbacks run outside React's  *)
(* batching, so setState applies synchronously and storeReading followed   *)
(* by updateChart is one action.                                           *)
(***************************************************************************)
EXTENDS Integers, Sequences, FiniteSets, TLC

\* ------------------------------------------------------------ bounds
NumConns == 2       \* socket ids the transport hands out: 1..NumConns
NumSensors == 2     \* series in data.json
MaxReadings == 52   \* readings the server emits in all while a Chart is mounted (ClientSpec)
MaxSent == 4        \* readings emitted to one socket before the model stops its timer ticks

\* ------------------------------------------------------------ program constants
MAX_POINTS_TO_STORE == 50
DEFAULT_X_TICKS == 20

Conns == 1..NumConns

VARIABLES
  connections,  \* io.connections: connectionId -> session; an id is in the
                \* domain iff io.connections[id] is not undefined
  intervals,    \* handles of the active setInterval timers (handle = owning id)
  socket,       \* per socket id: "idle" (not yet connected), "open", "closed"
  handshake,    \* per socket id: socket.handshake.query['sensor'] as sent
  sent,         \* per socket id: the readings passed to socket.emit("reading", ...),
                \* in order, as <<value, zscore>> (history; timestamps elided)
  response,     \* the undeclared global `response` getNextReading assigns
  clock,        \* Date.now()
  thrown,       \* the uncaught exception that ended the process, or NoThrow
  chart,        \* the Chart: "unmounted", "mounted", "failed" (componentDidMount
                \* threw) or "gone" (componentWillUnmount ran)
  props,        \* this.props: sensorId ("undefined" when absent) and x-ticks (0 when absent)
  state,        \* this.state: data, lastTimestamp, connected, error
  tsChart,      \* what updateChart last handed to D3TsChart (and its local highestValueInView)
  chartSock,    \* the server-side socket id of this.socket's connection, 0 when it has none
  stored,       \* history: the readings storeReading received since the buffer was last empty
  errorSock     \* history: chartSock at the last error event (0: no connection then),
                \* -1 before any error event

\* what the handlers of api/index.js read and write
serverVars == <<connections, intervals, sent, response, clock, thrown>>
\* what the transport (socket.io) owns
transportVars == <<socket, handshake>>
\* the Chart component
clientVars == <<chart, props, state, tsChart, chartSock, stored, errorSock>>
vars == <<serverVars, transportVars, clientVars>>

\* ------------------------------------------------------------ JS values
\* A JS number as the server meets it: an integer, a non-integer, or NaN.
Int_(n) == [kind |-> "int", v |-> n]
Frac == [kind |-> "frac", v |-> 0]
NaN == [kind |-> "nan", v |-> 0]

\* Decimal integer literals the query string may carry, and their values.
IntLiterals == <<"-1", "0", "1", "2", "3", "4">>
LiteralValue(s) == (CHOOSE i \in DOMAIN IntLiterals : IntLiterals[i] = s) - 2

\* Number(x) of a query value: undefined and non-numeric text give NaN.
Number(raw) ==
  IF raw \in {IntLiterals[i] : i \in DOMAIN IntLiterals} THEN Int_(LiteralValue(raw))
  ELSE IF raw = "1.5" THEN Frac
  ELSE NaN

\* What a client may send as ?sensor=: nothing, text, a fraction, and integers
\* from -1 to one past the last series.
QueryValues ==
  {"undefined", "abc", "1.5"} \cup {IntLiterals[i] : i \in 1..(NumSensors + 3)}

\* data.json: series k (1-based here, k-1 in the JS array) has k+1 readings.
sensorData ==
  [k \in 1..NumSensors |->
     [readings |-> [i \in 1..(k + 1) |-> 10 * k + i],
      zScores  |-> [i \in 1..(k + 1) |-> IF i = k THEN 1 ELSE 0]]]

\* sensorData[n] for a JS number n: defined only for an integer index in range.
HasSeries(n) == n.kind = "int" /\ n.v >= 0 /\ n.v < Len(sensorData)
Minus1(n) == IF n.kind = "int" THEN Int_(n.v - 1) ELSE n

NoThrow == [op |-> "none", conn |-> 0]
NoResponse == [timestamp |-> 0, value |-> 0, zscore |-> 0]

\* JSON.stringify of a reading: the text is modelled as its key/value pairs.
JSONstringify(r) ==
  << <<"timestamp", r.timestamp>>, <<"value", r.value>>, <<"zscore", r.zscore>> >>

\* JSON.parse of such a text: the object with the text's keys.
JSONfield(text, key) == text[CHOOSE i \in DOMAIN text : text[i][1] = key][2]
JSONparse(text) ==
  [timestamp |-> JSONfield(text, "timestamp"),
   value |-> JSONfield(text, "value"),
   zscore |-> JSONfield(text, "zscore")]

\* ------------------------------------------------------------ client values
SOCKETIO_ERRORS == {"reconnect_error", "connect_error", "connect_timeout", "connect_failed", "error"}

\* this.state.error is '' at first, false after a reading, a message after an
\* error event.  A string is the sequence of its parts.
EmptyString == [type |-> "string", text |-> << >>]
False == [type |-> "boolean", text |-> << >>]
Truthy(e) == e.type = "string" /\ e.text # << >>

\* tsChart before any setSeriesData: both series exist (addSeries) and are empty.
NoChart == [sensor |-> << >>, zline |-> << >>, highest |-> 0]

\* ------------------------------------------------------------ server
Init ==
  /\ connections = << >>
  /\ intervals = {}
  /\ socket = [c \in Conns |-> "idle"]
  /\ handshake = [c \in Conns |-> "undefined"]
  /\ sent = [c \in Conns |-> << >>]
  /\ response = NoResponse
  /\ clock = 0
  /\ thrown = NoThrow
  /\ chart = "unmounted"
  /\ props = [sensorId |-> "undefined", xTicks |-> 0]
  /\ state = [data |-> << >>, lastTimestamp |-> << >>, connected |-> FALSE, error |-> EmptyString]
  /\ tsChart = NoChart
  /\ chartSock = 0
  /\ stored = << >>
  /\ errorSock = 0 - 1

Running == thrown = NoThrow

\* getNextReading(data, index): the object it assigns to the global `response`.
getNextReading_response(data, index) ==
  [timestamp |-> clock + 1,
   value |-> data.readings[index + 1],
   zscore |-> data.zScores[index + 1]]

\* (mutant) the cursor is advanced without wrapping
getNextReading_newIndex_noWrap(data, index) == index + 1

\* (mutant) the cursor is returned before it is advanced
getNextReading_newIndex_stuck(data, index) == index % Len(data.readings)

\* getNextReading(data, index): the newIndex it returns.
getNextReading_newIndex(data, index) == (index + 1) % Len(data.readings)

\* (mutant) the global `response` is read before getNextReading assigned it:
\* the reading is whatever the last emission of any session left there
emitData_emitted_stale(data, index) == response

\* The reading emitData hands to socket.emit: the `response` getNextReading
\* returned, read back in the same run-to-completion step that assigned it.
emitData_emitted(data, index) == getNextReading_response(data, index)

\* emitData: the text passed to socket.emit("reading", ...) for a session with a series.
emitData_payload(c) ==
  LET conn == connections[c]
      data == sensorData[conn.sensorId.v]
  IN JSONstringify(emitData_emitted(data, conn.index))

\* emitData(connectionId, socket)
emitData(c) ==
  IF c \notin DOMAIN connections
  THEN \* conn is undefined: conn.sensorId throws a TypeError
       /\ thrown' = [op |-> "emitData", conn |-> c]
       /\ UNCHANGED <<connections, intervals, sent, response, clock>>
  ELSE LET conn == connections[c]
           n == Minus1(conn.sensorId)
       IN IF ~HasSeries(n)
          THEN \* data is undefined: data.readings throws a TypeError
               /\ thrown' = [op |-> "emitData", conn |-> c]
               /\ UNCHANGED <<connections, intervals, sent, response, clock>>
          ELSE LET data == sensorData[n.v + 1]
                   out == JSONparse(emitData_payload(c))
               IN /\ clock' = clock + 1
                  /\ response' = getNextReading_response(data, conn.index)
                  /\ sent' = [sent EXCEPT ![c] = Append(@, <<out.value, out.zscore>>)]
                  /\ connections' = [connections EXCEPT
                                       ![c].index = getNextReading_newIndex(data, conn.index)]
                  /\ UNCHANGED <<intervals, thrown>>

\* (mutant) the registry is replaced by one holding the new session only
connectionHandler_replacesRegistry(c, raw) ==
  /\ connections' = [d \in {c} |-> [sensorId |-> Number(raw), index |-> 0, interval |-> c]]
  /\ intervals' = intervals \cup {c}
  /\ UNCHANGED <<sent, response, clock, thrown>>

\* io.on('connection'): registers the session and starts its timer.
connectionHandler(c, raw) ==
  /\ connections' = [d \in DOMAIN connections \cup {c} |->
                       IF d = c THEN [sensorId |-> Number(raw), index |-> 0, interval |-> c]
                       ELSE connections[d]]
  /\ intervals' = intervals \cup {c}
  /\ UNCHANGED <<sent, response, clock, thrown>>

\* (mutant) the handler only logs: the timer keeps running, the session stays
disconnectHandler_onlyLogs(c) == UNCHANGED <<connections, intervals, sent, response, clock, thrown>>

\* (mutant) the session is removed but its timer is never cleared
disconnectHandler_keepsTimer(c) ==
  IF c \notin DOMAIN connections
  THEN /\ thrown' = [op |-> "disconnect", conn |-> c]
       /\ UNCHANGED <<connections, intervals, sent, response, clock>>
  ELSE /\ connections' = [d \in DOMAIN connections \ {c} |-> connections[d]]
       /\ UNCHANGED <<intervals, sent, response, clock, thrown>>

\* socket.on('disconnect')
disconnectHandler(c) ==
  IF c \notin DOMAIN connections
  THEN \* io.connections[connectionId] is undefined: .interval throws a TypeError
       /\ thrown' = [op |-> "disconnect", conn |-> c]
       /\ UNCHANGED <<connections, intervals, sent, response, clock>>
  ELSE /\ intervals' = intervals \ {connections[c].interval}
       /\ connections' = [d \in DOMAIN connections \ {c} |-> connections[d]]
       /\ UNCHANGED <<sent, response, clock, thrown>>

\* A client connects: the transport hands out a fresh socket id.
Connect(c, raw) ==
  /\ Running
  /\ socket[c] = "idle"
  /\ socket' = [socket EXCEPT ![c] = "open"]
  /\ handshake' = [handshake EXCEPT ![c] = raw]
  /\ connectionHandler(c, raw)

\* The transport reports the socket closed (socket.io does so once per socket).
Disconnect(c) ==
  /\ Running
  /\ socket[c] = "open"
  /\ socket' = [socket EXCEPT ![c] = "closed"]
  /\ UNCHANGED handshake
  /\ disconnectHandler(c)

\* A session that emitData can serve: registered, with a series for its sensor.
Serves(c) == c \in DOMAIN connections /\ HasSeries(Minus1(connections[c].sensorId))

\* (mutant) the timer stops firing at the end of the series instead of wrapping
Tick_stopsAtEnd(c) ==
  /\ Running
  /\ c \in intervals
  /\ Len(sent[c]) < MaxSent
  /\ Serves(c) =>
       connections[c].index + 1 < Len(sensorData[connections[c].sensorId.v].readings)
  /\ emitData(c)
  /\ UNCHANGED transportVars

\* The interval of socket c elapses (Node runs the callback of an active timer only).
Tick(c) ==
  /\ Running
  /\ c \in intervals
  /\ Len(sent[c]) < MaxSent
  /\ emitData(c)
  /\ UNCHANGED transportVars

Next ==
  \/ \E c \in Conns, raw \in QueryValues : Connect(c, raw) /\ UNCHANGED clientVars
  \/ \E c \in Conns : Disconnect(c) /\ UNCHANGED clientVars
  \/ \E c \in Conns : Tick(c) /\ UNCHANGED clientVars

Spec == Init /\ [][Next]_vars

\* The server under fair timers.  setInterval fires an active timer again and
\* again: a tick that stays possible is eventually taken.  Every query value
\* without a series takes the same path through the handlers, so one of them
\* ("abc") stands for all here.
FairQueryValues == {"abc"} \cup {IntLiterals[i] : i \in 3..(NumSensors + 2)}

FairNext ==
  \/ \E c \in Conns, raw \in FairQueryValues : Connect(c, raw) /\ UNCHANGED clientVars
  \/ \E c \in Conns : Disconnect(c) /\ UNCHANGED clientVars
  \/ \E c \in Conns : Tick(c) /\ UNCHANGED clientVars

FairSpec ==
  /\ Init /\ [][FairNext]_vars
  /\ \A c \in Conns : WF_vars(Tick(c) /\ UNCHANGED clientVars)

\* ------------------------------------------------------------ handlers called directly
\* section 4.1 and 4.2 of the design speak of the disconnect handler invoked a
\* second time and of an emission that fires after its session was removed.
\* Neither happens under Node's timers and socket.io's once-only disconnect
\* (Spec above); RaceSpec lets a caller invoke the two handlers of a closed
\* socket directly, as a test of the handlers would.
DisconnectAgain(c) ==
  /\ Running
  /\ socket[c] = "closed"
  /\ disconnectHandler(c)
  /\ UNCHANGED <<transportVars, clientVars>>

LateEmit(c) ==
  /\ Running
  /\ socket[c] = "closed"
  /\ emitData(c)
  /\ UNCHANGED <<transportVars, clientVars>>

RaceNext ==
  \/ \E c \in Conns, raw \in QueryValues : Connect(c, raw) /\ UNCHANGED clientVars
  \/ \E c \in Conns : Disconnect(c) /\ UNCHANGED clientVars
  \/ \E c \in Conns : Tick(c) /\ UNCHANGED clientVars
  \/ \E c \in Conns : DisconnectAgain(c)
  \/ \E c \in Conns : LateEmit(c)

RaceSpec == Init /\ [][RaceNext]_vars
\* ------------------------------------------------------------ client: Chart
Max(a, b) == IF a >= b THEN a ELSE b

\* Array.prototype.slice(k): the elements from 0-based position k on.
slice(arr, k) == SubSeq(arr, k + 1, Len(arr))

\* Math.max(...values); -Infinity for no values.
NegInfinity == 0 - 1000000
RECURSIVE MathMax(_)
MathMax(values) ==
  IF values = << >> THEN NegInfinity
  ELSE Max(values[1], MathMax(Tail(values)))

\* new Date(timestamp).toLocaleTimeString()
toLocaleTimeString(timestamp) == <<"time", timestamp>>

\* What the Chart instances may be given: sensorId absent, 1..(number of series)
\* or one past it; x-ticks absent, 1, the default, the maximum, or one more.
SensorProps == {"undefined"} \cup {IntLiterals[i] : i \in 3..(NumSensors + 3)}
XTicksProps == {0, 1, DEFAULT_X_TICKS, MAX_POINTS_TO_STORE, MAX_POINTS_TO_STORE + 1}

\* storeReading: the `data` of the new state.  pointsToStore is computed from
\* the length before data.push(reading).
storeReading_data(data, reading) ==
  LET pointsToStore == Max(Len(data) - MAX_POINTS_TO_STORE, 0)
      pushed == Append(data, reading)
  IN slice(pushed, pointsToStore)

\* (mutant) the first points of the buffer instead of the last
updateChart_data_first(data, xTicksProp) ==
  LET w == IF xTicksProp # 0 THEN xTicksProp ELSE DEFAULT_X_TICKS
  IN SubSeq(data, 1, IF w < Len(data) THEN w ELSE Len(data))

\* updateChart: the visible window `data` (props['x-ticks'] || DEFAULT_X_TICKS).
updateChart_data(data, xTicksProp) ==
  LET xTicks == Max(Len(data) - (IF xTicksProp # 0 THEN xTicksProp ELSE DEFAULT_X_TICKS), 0)
  IN slice(data, xTicks)

\* (mutant) the secondary series carries the z-score itself
updateChart_zLine_raw(view, highestValueInView) ==
  [i \in DOMAIN view |-> [timestamp |-> view[i].timestamp, value |-> view[i].zscore]]

\* updateChart: zLine, one point per visible point (p.zscore ? highestValueInView : 0).
updateChart_zLine(view, highestValueInView) ==
  [i \in DOMAIN view |->
     [timestamp |-> view[i].timestamp,
      value |-> IF view[i].zscore # 0 THEN highestValueInView ELSE 0]]

\* updateChart: what the three tsChart calls receive.
updateChart(data, xTicksProp) ==
  LET view == updateChart_data(data, xTicksProp)
      highestValueInView == MathMax([i \in DOMAIN view |-> view[i].value])
  IN [sensor |-> view,
      zline |-> updateChart_zLine(view, highestValueInView),
      highest |-> highestValueInView]

\* storeReading(response): setState, then updateChart on the new state.
storeReading(resp) ==
  LET reading == JSONparse(resp)
      newData == storeReading_data(state.data, reading)
  IN /\ state' = [data |-> newData,
                  connected |-> TRUE,
                  error |-> False,
                  lastTimestamp |-> toLocaleTimeString(reading.timestamp)]
     /\ tsChart' = updateChart(newData, props.xTicks)
     /\ stored' = Append(stored, reading)

\* (mutant) the error state leaves `connected` as it was
setError_state_staysConnected(type, error) ==
  [state EXCEPT !.data = << >>,
                !.error = [type |-> "string", text |-> <<error, " | ", type>>]]

\* (mutant) the error state keeps the buffer
setError_state_keepsData(type, error) ==
  [state EXCEPT !.connected = FALSE,
                !.error = [type |-> "string", text |-> <<error, " | ", type>>]]

\* setError(type, error): the state after this.setState({data: [], ...}).
setError_state(type, error) ==
  [state EXCEPT !.data = << >>,
                !.connected = FALSE,
                !.error = [type |-> "string", text |-> <<error, " | ", type>>]]

\* (mutant) componentDidMount without the x-ticks check
Mount_noWidthCheck(sensorId, xTicks) ==
  /\ chart = "unmounted"
  /\ props' = [sensorId |-> sensorId, xTicks |-> xTicks]
  /\ IF sensorId = "undefined"
     THEN chart' = "failed"
     ELSE chart' = "mounted"
  /\ UNCHANGED <<state, tsChart, chartSock, stored, errorSock, serverVars, transportVars>>

\* componentDidMount, up to and including this.connect().
Mount(sensorId, xTicks) ==
  /\ chart = "unmounted"
  /\ props' = [sensorId |-> sensorId, xTicks |-> xTicks]
  /\ IF sensorId = "undefined" \/ xTicks > MAX_POINTS_TO_STORE
     THEN chart' = "failed"
     ELSE chart' = "mounted"
  /\ UNCHANGED <<state, tsChart, chartSock, stored, errorSock, serverVars, transportVars>>

\* The transport connects this.socket (at first, or again after a loss): the
\* server's connection handler runs with the query of connect()'s URL.
Accept(c) ==
  /\ chart = "mounted"
  /\ chartSock = 0
  /\ \A d \in Conns : socket[d] = "idle" => c <= d
  /\ Connect(c, props.sensorId)
  /\ chartSock' = c
  /\ UNCHANGED <<chart, props, state, tsChart, stored, errorSock>>

\* The server's timer of the Chart's session fires and the "reading" event,
\* if one was emitted, reaches storeReading.  The model stops the stream after
\* `limit` emissions.
Reading(limit) ==
  /\ chart = "mounted"
  /\ chartSock # 0
  /\ clock < limit
  /\ Running
  /\ chartSock \in intervals
  /\ emitData(chartSock)
  /\ IF Serves(chartSock)
     THEN storeReading(emitData_payload(chartSock))
     ELSE UNCHANGED <<state, tsChart, stored>>
  /\ UNCHANGED <<transportVars, chart, props, chartSock, errorSock>>

\* One of the SOCKETIO_ERRORS events fires on this.socket.  The four
\* connection-failure events fire while the socket has no connection; 'error'
\* may also fire on a live connection, which then goes on delivering readings.
SocketError(type) ==
  /\ chart = "mounted"
  /\ type = "error" \/ chartSock = 0
  /\ state' = setError_state(type, "Error")
  /\ stored' = << >>
  /\ errorSock' = chartSock
  /\ UNCHANGED <<chart, props, tsChart, chartSock, serverVars, transportVars>>

\* The connection is lost: the server sees the socket disconnect.
Drop ==
  /\ chart = "mounted"
  /\ chartSock # 0
  /\ Disconnect(chartSock)
  /\ chartSock' = 0
  /\ UNCHANGED <<chart, props, state, tsChart, stored, errorSock>>

\* componentWillUnmount: this.socket.disconnect().
Unmount ==
  /\ chart = "mounted"
  /\ chart' = "gone"
  /\ chartSock' = 0
  /\ IF chartSock # 0 /\ Running
     THEN Disconnect(chartSock)
     ELSE UNCHANGED <<serverVars, transportVars>>
  /\ UNCHANGED <<props, state, tsChart, stored, errorSock>>

\* One Chart on one connection, streaming long enough to fill its buffer.
ClientNext ==
  \/ \E sensorId \in SensorProps, xTicks \in XTicksProps : Mount(sensorId, xTicks)
  \/ \E c \in Conns : Accept(c)
  \/ Reading(MaxReadings)
  \/ \E type \in SOCKETIO_ERRORS : SocketError(type)
  \/ Unmount

ClientSpec == Init /\ [][ClientNext]_vars

\* One Chart whose connection may be lost and made again, on short streams.
SessionNext ==
  \/ \E sensorId \in SensorProps, xTicks \in XTicksProps : Mount(sensorId, xTicks)
  \/ \E c \in Conns : Accept(c)
  \/ Reading(MaxSent)
  \/ \E type \in SOCKETIO_ERRORS : SocketError(type)
  \/ Drop
  \/ Unmount

SessionSpec == Init /\ [][SessionNext]_vars

\* ------------------------------------------------------------ claims: server
\* The sensor selector the design accepts: an integer from 1 to the number of series.
ValidSensor(raw) == Number(raw).kind = "int" /\ Number(raw).v >= 1 /\ Number(raw).v <= NumSensors
SeriesOf(raw) == sensorData[Number(raw).v]
\* The i-th reading (from 1) of a cyclic walk over series d, as <<value, zscore>>.
CyclicReading(d, i) ==
  <<d.readings[((i - 1) % Len(d.readings)) + 1], d.zScores[((i - 1) % Len(d.readings)) + 1]>>

\* C3: for a session bound to a valid sensor with series length L, the i-th
\* emission (from 0) carries the reading at index i mod L, one reading per tick,
\* and the cursor is (number of emissions) mod L, so it is 0 again after L
\* emissions and the emitted sequence repeats.
C3_CyclicOrder ==
  \A c \in Conns :
    (socket[c] # "idle" /\ ValidSensor(handshake[c])) =>
      /\ \A i \in 1..Len(sent[c]) : sent[c][i] = CyclicReading(SeriesOf(handshake[c]), i)
      /\ c \in DOMAIN connections =>
           connections[c].index = Len(sent[c]) % Len(SeriesOf(handshake[c]).readings)

\* C3 witness: a live session has emitted more than one full cycle of its
\* series and its cursor is back at 0.
C3_Witness ==
  \E c \in DOMAIN connections :
    /\ ValidSensor(handshake[c])
    /\ Len(sent[c]) = 2 * Len(SeriesOf(handshake[c]).readings)
    /\ connections[c].index = 0

\* C4: a connection whose sensor parameter is missing, non-numeric, zero,
\* negative, non-integer or beyond the number of series is rejected at connect
\* time: no session is registered for it and no timer is started.
C4_InvalidSensorRejected ==
  \A c \in Conns :
    (socket[c] = "open" /\ ~ValidSensor(handshake[c])) =>
      (c \notin DOMAIN connections /\ c \notin intervals)

\* C5: the disconnect handler is idempotent: invoked for a connectionId that
\* has no session (a second invocation), it raises no error.
C5_DisconnectIdempotent == thrown.op # "disconnect"

\* C6: once the disconnect handler of a connection has run, no reading is
\* emitted to that connection again and the registry holds no session for it.
C6_NoEmitAfterDisconnect ==
  [][\A c \in Conns :
       /\ socket'[c] = "closed" => (c \notin DOMAIN connections' /\ c \notin intervals')
       /\ socket[c] = "closed" => sent'[c] = sent[c]]_vars

\* C6 witness: a connection was disconnected after some emissions and below the
\* model's emission cap, while another session went on emitting.
C6_Witness ==
  \E c, d \in Conns :
    /\ socket[c] = "closed" /\ Len(sent[c]) >= 1 /\ Len(sent[c]) < MaxSent
    /\ d \in DOMAIN connections /\ Len(sent[d]) > Len(sent[c])

\* C9: under any interleaving of the ticks of several sessions, a reading
\* delivered to a connection has value and zscore of that session's own series
\* at that session's own cursor, and a tick delivers to no other connection.
C9_OwnSeriesOwnCursor ==
  [][\A c \in Conns :
       sent'[c] # sent[c] =>
         /\ c \in DOMAIN connections
         /\ HasSeries(Minus1(connections[c].sensorId))
         /\ LET d == sensorData[connections[c].sensorId.v]
                i == connections[c].index
            IN sent'[c] = Append(sent[c], <<d.readings[i + 1], d.zScores[i + 1]>>)
         /\ \A o \in Conns \ {c} : sent'[o] = sent[o]]_vars

\* C9 witness: two live sessions on different sensors have both emitted, and
\* the global `response` holds a reading of one while the other's cursor is
\* elsewhere in its own series.
C9_Witness ==
  \E c, d \in DOMAIN connections :
    /\ c # d
    /\ ValidSensor(handshake[c]) /\ ValidSensor(handshake[d])
    /\ handshake[c] # handshake[d]
    /\ Len(sent[c]) >= 2 /\ Len(sent[d]) >= 2
    /\ connections[c].index # connections[d].index
    /\ response.value = sent[c][Len(sent[c])][1]

\* C10: if emitData fires for a connectionId whose session was removed by
\* disconnect, the emission is dropped: emitData does not throw.
C10_LateEmitDropped == ~(thrown.op = "emitData" /\ socket[thrown.conn] = "closed")

\* C11: in every reachable server state the active timers and the live sessions
\* correspond one to one: each session's own timer is active, and no timer is
\* active for a connectionId without a session.
C11_TimersMatchSessions ==
  /\ intervals = {connections[c].interval : c \in DOMAIN connections}
  /\ \A c \in DOMAIN connections :
       Cardinality({h \in intervals : h = connections[c].interval}) = 1
  /\ \A c, d \in DOMAIN connections :
       connections[c].interval = connections[d].interval => c = d
  /\ \A c \in Conns : socket[c] # "open" => c \notin intervals

\* C11 witness: after connects and a disconnect, one session is gone (with
\* emissions behind it) and another is live with its timer.
C11_Witness ==
  \E c, d \in Conns :
    /\ socket[c] = "closed" /\ Len(sent[c]) >= 1
    /\ d \in DOMAIN connections /\ d \in intervals /\ Len(sent[d]) >= 1

\* C12: an error raised while emitting for one session does not stop the
\* emissions of the other live sessions: every live session with a series
\* (below the model's emission cap) can still take its next tick.
C12_OtherSessionsKeepEmitting ==
  \A d \in Conns :
    (d \in intervals /\ Serves(d) /\ Len(sent[d]) < MaxSent) =>
      ENABLED (Tick(d) /\ UNCHANGED clientVars)

\* C15: the cursor of every live session bound to a valid sensor is an integer
\* in [0, length(readings)) in every reachable state.
C15_CursorInRange ==
  \A c \in DOMAIN connections :
    ValidSensor(handshake[c]) =>
      /\ connections[c].index \in Nat
      /\ connections[c].index < Len(SeriesOf(handshake[c]).readings)

\* C15 witness: a session that has wrapped once stands on the last index of
\* its series again.
C15_Witness ==
  \E c \in DOMAIN connections :
    /\ ValidSensor(handshake[c])
    /\ Len(sent[c]) > Len(SeriesOf(handshake[c]).readings)
    /\ connections[c].index = Len(SeriesOf(handshake[c]).readings) - 1

\* C16: a tick, connect or disconnect of one connection leaves every other
\* session's sensorId, cursor and timer as they were; a session's sensorId
\* never changes, and its cursor changes only when a reading is emitted to it.
C16_OtherSessionsUntouched ==
  [][/\ \E c \in Conns : \A d \in Conns \ {c} :
          /\ (d \in DOMAIN connections) = (d \in DOMAIN connections')
          /\ d \in DOMAIN connections => connections'[d] = connections[d]
          /\ (d \in intervals) = (d \in intervals')
     /\ \A d \in DOMAIN connections \cap DOMAIN connections' :
          /\ connections'[d].sensorId = connections[d].sensorId
          /\ connections'[d].index # connections[d].index =>
               Len(sent'[d]) = Len(sent[d]) + 1]_vars

\* C16 witness: a session that has emitted stands beside a session connected
\* later that has not, and beside nothing else that changed it: its cursor is
\* where its own emissions put it.
C16_Witness ==
  \E c, d \in DOMAIN connections :
    /\ c # d
    /\ ValidSensor(handshake[c])
    /\ Len(sent[c]) = 1 /\ connections[c].index = 1
    /\ Len(sent[d]) = 0 /\ connections[d].index = 0

\* C17: under fair timer scheduling the stream of a session bound to a valid
\* sensor does not end on its own: no such session stays for ever short of the
\* model's emission cap (which lies past the wrap of the cursor) while it is
\* connected and the process runs; it emits on until it is disconnected.
C17_StreamNeverEnds ==
  []<>(\A c \in Conns :
         ~(/\ c \in DOMAIN connections /\ ValidSensor(handshake[c])
           /\ Running /\ Len(sent[c]) < MaxSent))

\* C17 witness: a live session has emitted up to the cap, through at least one
\* wrap of its cursor.
C17_Witness ==
  \E c \in DOMAIN connections :
    /\ ValidSensor(handshake[c])
    /\ Len(sent[c]) = MaxSent
    /\ MaxSent > Len(SeriesOf(handshake[c]).readings)
\* ------------------------------------------------------------ claims: client
Min(a, b) == IF a <= b THEN a ELSE b
\* The last k elements of s, in order.
LastN(s, k) == [i \in 1..k |-> s[Len(s) - k + i]]
\* The display width in force.
Width == IF props.xTicks # 0 THEN props.xTicks ELSE DEFAULT_X_TICKS

\* C1: after any sequence of readings and error events, the buffer state.data
\* never holds more than MAX_POINTS_TO_STORE (50) points.
C1_BufferBounded == Len(state.data) <= MAX_POINTS_TO_STORE

\* C2: after n consecutive storeReading calls with no error event between,
\* from an empty buffer, the buffer is the last min(n, 50) received readings
\* in arrival order (after 51: readings 2..51).
C2_LastReceived ==
  state.data = LastN(stored, Min(Len(stored), MAX_POINTS_TO_STORE))

\* C7: every error event leaves connected = false, a non-empty error and an
\* empty buffer; so whenever state.error is non-empty the buffer is empty and
\* connected is false.
C7_ErrorClearsBuffer ==
  Truthy(state.error) =>
    /\ state.data = << >>
    /\ state.connected = FALSE
    /\ state.error.text[Len(state.error.text)] \in SOCKETIO_ERRORS

\* C7 witness: an error event arrived on a Chart that had buffered and drawn
\* readings.
C7_Witness ==
  /\ Truthy(state.error)
  /\ state.error.text[Len(state.error.text)] = "connect_failed"
  /\ Len(tsChart.sensor) >= 2

\* C8: after storeReading, with n buffered points and display width w
\* (1 <= w <= 50), the renderer holds exactly the last min(w, n) buffer points
\* in their order, and highest is the maximum value among those points.
C8_LastWPoints ==
  (state.connected /\ Width >= 1 /\ Width <= MAX_POINTS_TO_STORE) =>
    LET n == Len(state.data)
        shown == LastN(state.data, Min(Width, n))
    IN /\ tsChart.sensor = shown
       /\ \E i \in DOMAIN shown : shown[i].value = tsChart.highest
       /\ \A i \in DOMAIN shown : shown[i].value <= tsChart.highest

\* C8 witness: w = 20 and 50 buffered points; 20 points are shown.
C8_Witness ==
  /\ state.connected
  /\ props.xTicks = DEFAULT_X_TICKS
  /\ Len(state.data) = MAX_POINTS_TO_STORE
  /\ Len(tsChart.sensor) = DEFAULT_X_TICKS

\* C13 (as claimed): once in the error state, the client becomes connected
\* again only through a reading received on a connection made after the error
\* event; a reading on the connection the error came on does not do it.
C13_OnlyAfterNewConnect ==
  [][(Truthy(state.error) /\ state'.connected) => chartSock # errorSock]_vars

\* C13 (amended): in the error state the client is not connected, and it
\* becomes connected again only through storeReading of a reading the server
\* just emitted to its connection, whichever connection that is.
C13_OnlyThroughReading ==
  [][Truthy(state.error) =>
       /\ ~state.connected
       /\ state'.connected =>
            /\ chartSock # 0 /\ chartSock' = chartSock
            /\ Len(sent'[chartSock]) = Len(sent[chartSock]) + 1
            /\ state'.error = False
            /\ state'.data = <<response'>>]_vars

\* C13 witness: connected again, by a reading on the very connection the error
\* event came on.
C13_Witness ==
  /\ state.connected
  /\ errorSock = chartSock /\ chartSock # 0
  /\ Len(state.data) >= 1
\* C14: after an error event the data last handed to the renderer is empty:
\* no point received before the error stays displayed in the error state.
C14_ErrorClearsChart ==
  Truthy(state.error) => (tsChart.sensor = << >> /\ tsChart.zline = << >>)

\* C18: the z-score series handed to the renderer has the length of the
\* visible window and its timestamps in the same order, and each of its values
\* is 0 where the point's zscore is falsy and the highest value of the visible
\* window where it is truthy, never the z-score itself.
C18_ZLineNormalised ==
  LET view == tsChart.sensor
      top == MathMax([i \in DOMAIN view |-> view[i].value])
  IN /\ Len(tsChart.zline) = Len(view)
     /\ \A i \in DOMAIN view :
          /\ tsChart.zline[i].timestamp = view[i].timestamp
          /\ view[i].zscore = 0 => tsChart.zline[i].value = 0
          /\ view[i].zscore # 0 =>
               /\ tsChart.zline[i].value = top
               /\ tsChart.zline[i].value # view[i].zscore

\* C18 witness: the window has slid past the first readings, and it shows
\* points with a truthy and points with a falsy zscore.
C18_Witness ==
  /\ Len(stored) > Len(tsChart.sensor)
  /\ \E i, j \in DOMAIN tsChart.sensor :
       /\ tsChart.sensor[i].zscore # 0 /\ tsChart.zline[i].value = tsChart.highest
       /\ tsChart.sensor[j].zscore = 0 /\ tsChart.zline[j].value = 0

\* C19: a Chart given x-ticks above MAX_POINTS_TO_STORE, or no sensorId, fails
\* in componentDidMount: it never has a socket and the server never gets a
\* session for it; a Chart that did mount, and so any connected Chart, has a
\* display width of at most MAX_POINTS_TO_STORE.
C19_BadPropsNeverConnect ==
  /\ (chart # "unmounted" /\ (props.sensorId = "undefined" \/ props.xTicks > MAX_POINTS_TO_STORE)) =>
       /\ chart = "failed"
       /\ chartSock = 0
       /\ DOMAIN connections = {} /\ intervals = {}
       /\ \A c \in Conns : socket[c] = "idle"
  /\ (chart = "mounted" \/ chartSock # 0) =>
       /\ props.sensorId # "undefined"
       /\ Width <= MAX_POINTS_TO_STORE

\* C19 witness: a Chart with a sensorId and x-ticks of one more than the
\* maximum has failed to mount.
C19_Witness ==
  /\ chart = "failed"
  /\ props.sensorId # "undefined"
  /\ props.xTicks = MAX_POINTS_TO_STORE + 1

====
